---- MODULE Spec2Model ----
(***************************************************************************)
(* Model of generate_icons.py: the import fallback, main(), the size loop  *)
(* calling generate_png_from_svg, the generate_ico call and the summary.   *)
(* The file system is a function from paths to file contents; the two      *)
(* imaging libraries are modelled by what their calls do to that function. *)
(***************************************************************************)
EXTENDS Integers, Sequences, FiniteSets, TLC

\* ------------------------------------------------------------------ bounds
MaxRuns == 2    \* number of times the script is run on the same directory
NumSvg  == 2    \* number of distinct well-formed contents icon.svg may take

\* ------------------------------------------------------- program constants
svg_path == "icon.svg"
ico_path == "favicon.ico"

\* the table walked in sorted key order instead of insertion order
SIZES_sorted ==
  << [filename |-> "android-chrome-192x192.png", size |-> 192],
     [filename |-> "android-chrome-512x512.png", size |-> 512],
     [filename |-> "apple-touch-icon.png",       size |-> 180],
     [filename |-> "favicon-16x16.png",          size |-> 16],
     [filename |-> "favicon-32x32.png",          size |-> 32] >>

SIZES ==
  << [filename |-> "favicon-16x16.png",          size |-> 16],
     [filename |-> "favicon-32x32.png",          size |-> 32],
     [filename |-> "apple-touch-icon.png",       size |-> 180],
     [filename |-> "android-chrome-192x192.png", size |-> 192],
     [filename |-> "android-chrome-512x512.png", size |-> 512] >>

\* sizes=[(16, 16), (32, 32)] passed to Image.save
IcoSizes == { <<16, 16>>, <<32, 32>> }

\* a file of the working directory the script never names
OtherPath == "index.html"

PngPaths == { SIZES[i].filename : i \in 1..Len(SIZES) }
OutputPaths == PngPaths \cup { ico_path }
Paths == OutputPaths \cup { svg_path, OtherPath }

\* ------------------------------------------------------------ file contents
\* kind: absent | svg | badsvg | png | ico | partial | html
\* w,h : pixel size of a png;  src: which svg content it was rendered from
\* len : number of encoded images the bytes of the file hold, back to back
\* imgs: the sizes embedded in an ico
File(k, w, h, s, n, im) ==
  [kind |-> k, w |-> w, h |-> h, src |-> s, len |-> n, imgs |-> im]

Absent  == File("absent", 0, 0, 0, 0, {})
Partial == File("partial", 0, 0, 0, 0, {})
Html    == File("html", 0, 0, 0, 1, {})
Svg(v)  == File("svg", 0, 0, v, 1, {})
BadSvg  == File("badsvg", 0, 0, 0, 1, {})

SvgInputs == { Absent, BadSvg } \cup { Svg(v) : v \in 1..NumSvg }

\* os.path.exists
Exists(f, p) == f[p].kind # "absent"

VARIABLES
  pc,            \* position of the process
  cairoAvail,    \* cairosvg importable
  pilAvail,      \* PIL importable
  importTries,   \* executions of the import pair in this process
  installCalls,  \* os.system("pip3 install ...") calls in this process
  idx,           \* position of the for loop in SIZES
  fs,            \* the working directory
  calls,         \* generate_* invocations of this process, in order
  written,       \* paths this process wrote completely, in order
  out,           \* lines printed by this process
  exitCode,      \* -1 while running, 0 normal return, 1 uncaught exception
  exc,           \* what raised the uncaught exception, "none" if nothing did
  runs,          \* processes started so far
  fsAtStart,     \* the working directory when this process started
  prevSvg,       \* icon.svg as the previous process left it
  prevDone       \* the previous process printed its summary

vars == << pc, cairoAvail, pilAvail, importTries, installCalls, idx, fs, calls,
           written, out, exitCode, exc, runs, fsAtStart, prevSvg, prevDone >>

\* ------------------------------------------------------------ printed lines
InstallMsg    == "Installing required packages..."
NotFoundMsg   == "Error: " \o svg_path \o " not found!"
GeneratingMsg == "Generating icons..."
SuccessMsg    == "All icons generated successfully!"
FilesMsg      == "Generated files:"
PngMsg(p, n)  == "Generated " \o p \o " (" \o ToString(n) \o "x" \o ToString(n) \o ")"
IcoMsg(p)     == "Generated " \o p
Item(p)       == "  - " \o p

InitFs(s) == [p \in Paths |-> IF p = svg_path THEN s
                              ELSE IF p = OtherPath THEN Html ELSE Absent]

Init ==
  /\ pc = "import"
  /\ cairoAvail \in BOOLEAN
  /\ pilAvail \in BOOLEAN
  /\ importTries = 0
  /\ installCalls = 0
  /\ idx = 1
  /\ \E s \in SvgInputs : fs = InitFs(s) /\ fsAtStart = InitFs(s)
  /\ calls = << >>
  /\ written = << >>
  /\ out = << >>
  /\ exitCode = -1
  /\ exc = "none"
  /\ runs = 1
  /\ prevSvg = Absent
  /\ prevDone = FALSE

\* ------------------------------------------------------------ library calls
\* svg2png without output_height: the height follows the drawing's own 1:2
\* aspect ratio
Svg2PngWidthOnly(svg, size) == File("png", size, 2 * size, svg.src, 1, {})

\* cairosvg.svg2png(url=, output_width=size, output_height=size): the bytes of
\* one PNG of the requested width and height rendered from the svg content
Svg2Png(svg, size) == File("png", size, size, svg.src, 1, {})

\* the file opened with 'ab': the new bytes follow the old ones
AppendFile(old, data) ==
  IF old.kind = "absent" THEN data ELSE [data EXCEPT !.len = old.len + data.len]

\* open(output_path, 'wb') ... f.write(data): the old bytes are discarded
WriteFile(old, data) == data

\* how a generate_png_from_svg call can end; svg2png raises on anything that
\* is not well-formed svg, and any of the three calls can raise on its own
PngOutcomes(f) ==
  IF f[svg_path].kind = "svg"
  THEN { "ok", "svg2png_raises", "open_raises", "write_raises" }
  ELSE { "svg2png_raises" }

\* the output opened before the rasterizer is called
generate_png_from_svg_open_first(f, svg, output_path, size, outcome) ==
  CASE outcome = "svg2png_raises" -> [f EXCEPT ![output_path] = Partial]
    [] outcome = "open_raises"    -> f
    [] outcome = "write_raises"   -> [f EXCEPT ![output_path] = Partial]
    [] OTHER -> [f EXCEPT ![output_path] =
                            WriteFile(f[output_path], Svg2Png(f[svg], size))]

\* the two path arguments used the wrong way round when opening the file
generate_png_from_svg_swapped(f, svg, output_path, size, outcome) ==
  CASE outcome = "svg2png_raises" -> f
    [] outcome = "open_raises"    -> f
    [] outcome = "write_raises"   -> [f EXCEPT ![svg] = Partial]
    [] OTHER -> [f EXCEPT ![svg] = WriteFile(f[svg], Svg2Png(f[svg], size))]

generate_png_from_svg(f, svg, output_path, size, outcome) ==
  CASE outcome = "svg2png_raises" -> f
    [] outcome = "open_raises"    -> f
    [] outcome = "write_raises"   -> [f EXCEPT ![output_path] = Partial]
    [] OTHER -> [f EXCEPT ![output_path] =
                            WriteFile(f[output_path], Svg2Png(f[svg], size))]

\* Image.save(output_path, format='ICO', sizes=, append_images=): a requested
\* size larger than the base image is skipped; every size kept becomes one
\* embedded image (both requested sizes are below the 256 pixel limit of the
\* format, which therefore plays no part here)
ImageSaveIco(base, sizes, append_images) ==
  File("ico", 0, 0, base.src, 1,
       { s \in sizes : s[1] <= base.w /\ s[2] <= base.h })

\* Image.open raises on a file that is not an image
IcoOutcomes(f, png_16_path, png_32_path) ==
  IF f[png_16_path].kind = "png" /\ f[png_32_path].kind = "png"
  THEN { "ok", "image_open_raises", "save_raises" }
  ELSE { "image_open_raises" }

generate_ico(f, png_16_path, png_32_path, output_path, outcome) ==
  CASE outcome = "image_open_raises" -> f
    [] outcome = "save_raises"       -> [f EXCEPT ![output_path] = Partial]
    [] OTHER -> [f EXCEPT ![output_path] =
                   WriteFile(f[output_path],
                             ImageSaveIco(f[png_16_path], IcoSizes,
                                          { f[png_32_path] }))]

\* --------------------------------------------------------------- the script
Call(fn, p, n) == [fn |-> fn, path |-> p, size |-> n]

\* the process ends: return (code 0) or uncaught exception (code 1)
Exit(code, e) ==
  /\ pc' = "exited"
  /\ exitCode' = code
  /\ exc' = e

\* try: import cairosvg; from PIL import Image            -- both found
import_try_ok ==
  /\ pc = "import"
  /\ cairoAvail /\ pilAvail
  /\ importTries' = importTries + 1
  /\ pc' = "main"
  /\ UNCHANGED << cairoAvail, pilAvail, installCalls, idx, fs, calls, written,
                  out, exitCode, exc, runs, fsAtStart, prevSvg, prevDone >>

\* except ImportError: print("Installing required packages...")
import_try_fail ==
  /\ pc = "import"
  /\ ~(cairoAvail /\ pilAvail)
  /\ importTries' = importTries + 1
  /\ out' = Append(out, InstallMsg)
  /\ pc' = "install"
  /\ UNCHANGED << cairoAvail, pilAvail, installCalls, idx, fs, calls, written,
                  exitCode, exc, runs, fsAtStart, prevSvg, prevDone >>

\* os.system("pip3 install cairosvg pillow"): each package may or may not end
\* up importable; the return value is dropped
os_system_install ==
  /\ pc = "install"
  /\ installCalls' = installCalls + 1
  /\ cairoAvail' \in { cairoAvail, TRUE }
  /\ pilAvail' \in { pilAvail, TRUE }
  /\ pc' = "reimport"
  /\ UNCHANGED << importTries, idx, fs, calls, written, out, exitCode, exc,
                  runs, fsAtStart, prevSvg, prevDone >>

\* import cairosvg; from PIL import Image   (inside the handler) -- both found
reimport_ok ==
  /\ pc = "reimport"
  /\ cairoAvail /\ pilAvail
  /\ importTries' = importTries + 1
  /\ pc' = "main"
  /\ UNCHANGED << cairoAvail, pilAvail, installCalls, idx, fs, calls, written,
                  out, exitCode, exc, runs, fsAtStart, prevSvg, prevDone >>

\* the handler looping back to the installer when the import fails again
reimport_fail_retry ==
  /\ pc = "reimport"
  /\ ~(cairoAvail /\ pilAvail)
  /\ installCalls < 3
  /\ importTries' = importTries + 1
  /\ pc' = "install"
  /\ UNCHANGED << cairoAvail, pilAvail, installCalls, idx, fs, calls, written,
                  out, exitCode, exc, runs, fsAtStart, prevSvg, prevDone >>

\* the same imports raising ImportError, which nothing catches
reimport_fail ==
  /\ pc = "reimport"
  /\ ~(cairoAvail /\ pilAvail)
  /\ importTries' = importTries + 1
  /\ Exit(1, "ImportError")
  /\ UNCHANGED << cairoAvail, pilAvail, installCalls, idx, fs, calls, written,
                  out, runs, fsAtStart, prevSvg, prevDone >>

\* the existence check without its return
main_check_no_return ==
  /\ pc = "main"
  /\ out' = Append(out, IF ~Exists(fs, svg_path) THEN NotFoundMsg
                        ELSE GeneratingMsg)
  /\ pc' = "loop"
  /\ UNCHANGED << cairoAvail, pilAvail, importTries, installCalls, idx, fs,
                  calls, written, exitCode, exc, runs, fsAtStart, prevSvg,
                  prevDone >>

\* main(), up to the for loop
main_check ==
  /\ pc = "main"
  /\ IF ~Exists(fs, svg_path)
     THEN /\ out' = Append(out, NotFoundMsg)
          /\ Exit(0, "none")
     ELSE /\ out' = Append(out, GeneratingMsg)
          /\ pc' = "loop"
          /\ UNCHANGED << exitCode, exc >>
  /\ UNCHANGED << cairoAvail, pilAvail, importTries, installCalls, idx, fs,
                  calls, written, runs, fsAtStart, prevSvg, prevDone >>

\* the loop body wrapped in try/except: a failing entry is skipped
main_loop_swallow ==
  /\ pc = "loop"
  /\ idx <= Len(SIZES)
  /\ \E outcome \in PngOutcomes(fs) :
       LET e == SIZES[idx] IN
       /\ fs' = generate_png_from_svg(fs, svg_path, e.filename, e.size, outcome)
       /\ calls' = Append(calls, Call("generate_png_from_svg", e.filename, e.size))
       /\ IF outcome = "ok"
          THEN /\ written' = Append(written, e.filename)
               /\ out' = Append(out, PngMsg(e.filename, e.size))
          ELSE UNCHANGED << written, out >>
       /\ idx' = idx + 1
       /\ pc' = IF idx = Len(SIZES) THEN "ico" ELSE "loop"
       /\ UNCHANGED << exitCode, exc >>
  /\ UNCHANGED << cairoAvail, pilAvail, importTries, installCalls, runs,
                  fsAtStart, prevSvg, prevDone >>

\* one iteration of: for filename, size in SIZES.items()
main_loop ==
  /\ pc = "loop"
  /\ idx <= Len(SIZES)
  /\ \E outcome \in PngOutcomes(fs) :
       LET e == SIZES[idx] IN
       /\ fs' = generate_png_from_svg(fs, svg_path, e.filename, e.size, outcome)
       /\ calls' = Append(calls, Call("generate_png_from_svg", e.filename, e.size))
       /\ IF outcome = "ok"
          THEN /\ written' = Append(written, e.filename)
               /\ out' = Append(out, PngMsg(e.filename, e.size))
               /\ idx' = idx + 1
               /\ pc' = IF idx = Len(SIZES) THEN "ico" ELSE "loop"
               /\ UNCHANGED << exitCode, exc >>
          ELSE /\ Exit(1, outcome)
               /\ UNCHANGED << written, out, idx >>
  /\ UNCHANGED << cairoAvail, pilAvail, importTries, installCalls, runs,
                  fsAtStart, prevSvg, prevDone >>

\* generate_ico('favicon-16x16.png', 'favicon-32x32.png', 'favicon.ico')
main_ico ==
  /\ pc = "ico"
  /\ \E outcome \in IcoOutcomes(fs, "favicon-16x16.png", "favicon-32x32.png") :
       /\ fs' = generate_ico(fs, "favicon-16x16.png", "favicon-32x32.png",
                             ico_path, outcome)
       /\ calls' = Append(calls, Call("generate_ico", ico_path, 0))
       /\ IF outcome = "ok"
          THEN /\ written' = Append(written, ico_path)
               /\ out' = Append(out, IcoMsg(ico_path))
               /\ pc' = "summary"
               /\ UNCHANGED << exitCode, exc >>
          ELSE /\ Exit(1, outcome)
               /\ UNCHANGED << written, out >>
  /\ UNCHANGED << cairoAvail, pilAvail, importTries, installCalls, idx, runs,
                  fsAtStart, prevSvg, prevDone >>

\* the summary without its last print
SummaryLinesPngOnly ==
  << SuccessMsg, FilesMsg >>
    \o [i \in 1..Len(SIZES) |-> Item(SIZES[i].filename)]

\* the lines of the summary, in the order printed
SummaryLines ==
  << SuccessMsg, FilesMsg >>
    \o [i \in 1..Len(SIZES) |-> Item(SIZES[i].filename)]
    \o << Item(ico_path) >>

\* the prints that end main(), then the return
main_summary ==
  /\ pc = "summary"
  /\ out' = out \o SummaryLines
  /\ Exit(0, "none")
  /\ UNCHANGED << cairoAvail, pilAvail, importTries, installCalls, idx, fs,
                  calls, written, runs, fsAtStart, prevSvg, prevDone >>

\* this process printed the summary
Done == pc = "exited" /\ exitCode = 0 /\ Len(calls) > 0

\* the script is started again in the same directory, icon.svg being whatever
\* the user has put there in the meantime
StartRun ==
  /\ pc = "exited"
  /\ runs < MaxRuns
  /\ \E s \in SvgInputs :
       /\ fs' = [fs EXCEPT ![svg_path] = s]
       /\ fsAtStart' = [fs EXCEPT ![svg_path] = s]
  /\ prevSvg' = fs[svg_path]
  /\ prevDone' = Done
  /\ runs' = runs + 1
  /\ pc' = "import"
  /\ importTries' = 0
  /\ installCalls' = 0
  /\ idx' = 1
  /\ calls' = << >>
  /\ written' = << >>
  /\ out' = << >>
  /\ exitCode' = -1
  /\ exc' = "none"
  /\ UNCHANGED << cairoAvail, pilAvail >>

Next ==
  \/ import_try_ok
  \/ import_try_fail
  \/ os_system_install
  \/ reimport_ok
  \/ reimport_fail
  \/ main_check
  \/ main_loop
  \/ main_ico
  \/ main_summary
  \/ StartRun

Spec == Init /\ [][Next]_vars

\* ---------------------------------------------------------------- properties
Range(q) == { q[i] : i \in 1..Len(q) }
IsPrefix(a, b) == Len(a) <= Len(b) /\ a = SubSeq(b, 1, Len(a))

\* the table as the documentation gives it
TableNames == << "favicon-16x16.png", "favicon-32x32.png", "apple-touch-icon.png",
                 "android-chrome-192x192.png", "android-chrome-512x512.png" >>
TableSizes == << 16, 32, 180, 192, 512 >>
SixNames == Range(TableNames) \cup { "favicon.ico" }
ExpectedCalls ==
  [i \in 1..5 |-> Call("generate_png_from_svg", TableNames[i], TableSizes[i])]
    \o << Call("generate_ico", "favicon.ico", 0) >>
IsPngOf(file, n) == file.kind = "png" /\ file.w = n /\ file.h = n /\ file.len = 1

\* C1: a run that finds icon.svg and in which no call raises ends having
\* written exactly the six named files, each PNG being square with the edge
\* its table entry gives, and having touched no other path.
C1_SixOutputs ==
  Done =>
    /\ written = TableNames \o << "favicon.ico" >>
    /\ \A i \in 1..5 :
         /\ IsPngOf(fs[TableNames[i]], TableSizes[i])
         /\ calls[i].size = TableSizes[i]
    /\ fs["favicon.ico"].kind = "ico"
    /\ \A p \in Paths \ SixNames : fs[p] = fsAtStart[p]

C1_Witness == Done /\ runs = 1 /\ Len(written) = 6

\* C2: when icon.svg is absent the run calls neither generate_png_from_svg nor
\* generate_ico, writes nothing, prints the error line and returns with
\* status 0.
C2_MissingSvg ==
  ~Exists(fsAtStart, "icon.svg") =>
    /\ calls = << >>
    /\ written = << >>
    /\ fs = fsAtStart
    /\ (pc = "exited" /\ exc # "ImportError") =>
         /\ exitCode = 0
         /\ exc = "none"
         /\ out[Len(out)] = "Error: icon.svg not found!"

C2_Witness ==
  pc = "exited" /\ ~Exists(fs, "icon.svg") /\ exitCode = 0 /\ Len(out) >= 1

\* C3: after a run that printed its summary favicon.ico embeds exactly the two
\* images 16x16 and 32x32.
C3_TwoImages ==
  Done => /\ fs["favicon.ico"].kind = "ico"
          /\ fs["favicon.ico"].imgs = { <<16, 16>>, <<32, 32>> }

\* C4: when the rasterizer raises for a table entry the process ends with the
\* uncaught error and that entry's output path is exactly as it was before
\* the run; with a malformed icon.svg this is how every run ends, no file
\* being changed at all.
C4_RasterFailure ==
  /\ (pc = "exited" /\ exc = "svg2png_raises") =>
       /\ exitCode = 1
       /\ LET p == calls[Len(calls)].path IN fs[p] = fsAtStart[p]
  /\ (pc = "exited" /\ exc # "ImportError" /\ fsAtStart["icon.svg"] = BadSvg) =>
       /\ exc = "svg2png_raises"
       /\ fs = fsAtStart

C4_Witness ==
  /\ pc = "exited" /\ exc = "svg2png_raises"
  /\ fs["icon.svg"] = BadSvg
  /\ fs["favicon-16x16.png"].kind = "png"

\* C5: a run that prints its summary, started on the directory a previous such
\* run left with icon.svg unchanged, leaves the directory exactly as it found
\* it.
C5_Idempotent ==
  (Done /\ prevDone /\ fs["icon.svg"] = prevSvg) => fs = fsAtStart

C5_Witness == Done /\ prevDone /\ fs["icon.svg"] = prevSvg /\ runs >= 2

\* C6: the installer is called at most once per process and the imports are
\* executed at most twice; a process whose first import failed has called the
\* installer exactly once and imported exactly twice by the time it leaves the
\* handler; if the second import fails the process ends with the import error
\* having run nothing of main() and written nothing.
C6_ImportFallback ==
  /\ installCalls <= 1
  /\ importTries <= 2
  /\ (InstallMsg \in Range(out) /\ pc \notin { "install", "reimport" }) =>
       installCalls = 1 /\ importTries = 2
  /\ (InstallMsg \notin Range(out)) => installCalls = 0
  /\ (pc = "exited" /\ exc = "ImportError") =>
       /\ exitCode = 1
       /\ installCalls = 1
       /\ importTries = 2
       /\ calls = << >>
       /\ written = << >>
       /\ fs = fsAtStart
       /\ out = << InstallMsg >>

C6_Witness == pc = "exited" /\ exc = "ImportError" /\ installCalls = 1

\* C7: the calls of a run are always an initial part of: the five
\* rasterizations in table order, then the one ICO packing; the summary is
\* printed only after all six; favicon.ico is written only after the 16 and 32
\* pixel PNGs were written in the same run.
C7_CallOrder ==
  /\ IsPrefix(calls, ExpectedCalls)
  /\ (pc = "summary" \/ SuccessMsg \in Range(out)) => calls = ExpectedCalls
  /\ ("favicon.ico" \in Range(written)) =>
       \E i, j, k \in 1..Len(written) :
         /\ i < k /\ j < k
         /\ written[i] = "favicon-16x16.png"
         /\ written[j] = "favicon-32x32.png"
         /\ written[k] = "favicon.ico"

C7_Witness ==
  pc = "exited" /\ calls = ExpectedCalls /\ SuccessMsg \in Range(out)

\* C8: once the call for the k-th table entry has raised, the process has
\* ended with status 1, the first k-1 files are the PNGs this run wrote, no
\* later entry was rasterized, the later outputs and favicon.ico are as they
\* were before the run, and neither the success line nor the summary was
\* printed.
C8_LoopFailure ==
  (Len(calls) > Len(written) /\ Len(calls) <= 5) =>
    LET k == Len(calls) IN
    /\ pc = "exited"
    /\ exitCode = 1
    /\ exc \in { "svg2png_raises", "open_raises", "write_raises" }
    /\ Len(written) = k - 1
    /\ \A i \in 1..(k - 1) :
         /\ written[i] = TableNames[i]
         /\ IsPngOf(fs[TableNames[i]], TableSizes[i])
         /\ fs[TableNames[i]].src = fs["icon.svg"].src
    /\ \A i \in (k + 1)..5 : fs[TableNames[i]] = fsAtStart[TableNames[i]]
    /\ fs["favicon.ico"] = fsAtStart["favicon.ico"]
    /\ SuccessMsg \notin Range(out)
    /\ FilesMsg \notin Range(out)

C8_Witness ==
  pc = "exited" /\ exitCode = 1 /\ Len(calls) = 3 /\ Len(written) = 2

\* C9: whenever the summary has been printed, its item lines are the five
\* table names in table order followed by favicon.ico.
C9_SummaryFixed ==
  (FilesMsg \in Range(out)) =>
    /\ Len(out) >= 8
    /\ out[Len(out) - 6] = FilesMsg
    /\ SubSeq(out, Len(out) - 5, Len(out)) =
         [i \in 1..5 |-> "  - " \o TableNames[i]] \o << "  - favicon.ico" >>

C9_Witness == FilesMsg \in Range(out) /\ pc = "exited" /\ exitCode = 0

\* C10: no step of a running process changes a path other than the six
\* output names (icon.svg included), removes a file, or changes a file the
\* same process has already written.
C10_Frame ==
  [][ pc # "exited" =>
        /\ \A p \in Paths \ SixNames : fs'[p] = fs[p]
        /\ \A p \in Paths : Exists(fs, p) => Exists(fs', p)
        /\ \A i \in 1..Len(written) : fs'[written[i]] = fs[written[i]] ]_vars

C10_Witness ==
  /\ pc = "exited" /\ exc = "save_raises" /\ Len(written) = 5
  /\ \A i \in 1..5 : fs[written[i]].kind = "png"
  /\ fs["icon.svg"] = fsAtStart["icon.svg"]

====
